---- MODULE Spec2Model ----
(***************************************************************************)
(* A model of ACBS: the build driver (acbs/main.py), the dependency        *)
(* coordinator (acbs/deps.py) and the host package-manager bridge          *)
(* (acbs/pm.py).                                                           *)
(***************************************************************************)
EXTENDS Integers, Sequences, FiniteSets, TLC

(***************************************************************************)
(* State                                                                   *)
(***************************************************************************)

\* acbs/pm.py: one call of install_from_repo
VARIABLES
    pm_pc,      \* "idle", or how the latest install_from_repo ended
    pm_pkgs,    \* argument of install_from_repo
    escaped,    \* the escaped names
    count,      \* the local counter of fix_pm_states at its end
    fix_calls,  \* how many times fix_pm_states was entered in this call
    cmds,       \* the commands run by this call, in order
    pm_exc      \* the exception that left install_from_repo, or "none"

pmVars == <<pm_pc, pm_pkgs, escaped, count, fix_calls, cmds, pm_exc>>

\* acbs/deps.py: one Dependencies coordinator and the host it queries
VARIABLES
    retry,        \* Dependencies.retry
    dp_pc,        \* position inside process_deps
    dp_args,      \* build_deps, run_deps, pkg_slug of the running call
    installed,    \* host: the installed packages
    available,    \* host: the packages the repository offers
    entries,      \* the value of retry at the entry of each invocation of the call
    installs,     \* install_pkgs attempts of the call
    to_install,   \* pkgs_to_install of the running invocation
    inv_result,   \* how the latest invocation ended
    dp_result     \* what the call delivered to its caller

depVars == <<retry, dp_pc, dp_args, installed, available, entries, installs,
             to_install, inv_result, dp_result>>

\* acbs/main.py: one BuildCore and its run of build()
VARIABLES
    build_queue,    \* BuildCore.build_queue: the requested names
    no_deps,        \* BuildCore.no_deps
    dl_only,        \* BuildCore.dl_only
    tree,           \* the package tree on disk: deps, sub-packages of the meta-package
    b_pc,           \* position inside BuildCore.build
    found,          \* the tasks found for the requested names (line 87)
    packages,       \* the local list packages
    resolved,       \* the local list resolved
    error,          \* the local flag error
    loops,          \* the components logged as loops
    idx,            \* position of the build loop in packages
    stamps,         \* the build directories that hold .acbs-stamp
    next_dir,       \* the next directory make_build_dir hands out
    build_timings,  \* the local list build_timings (names only)
    printed,        \* the lists handed to print_build_timings
    events,         \* the calls BuildCore.build made and the installables it read, in order
    b_exc           \* the error that ended the run, or "none"

buildVars == <<build_queue, no_deps, dl_only, tree, b_pc, found, packages,
               resolved, error, loops, idx, stamps, next_dir, build_timings,
               printed, events, b_exc>>

\* acbs/pm.py: one call of filter_dependencies
VARIABLES
    package,    \* the package object handed to filter_dependencies
    fd_arg,     \* the fields of that object when the call began
    fd_host,    \* host: what dpkg and apt-cache answer during the call
    fd_pc,      \* "idle", "call", or how the call ended
    fd_result   \* the object the call returned: "package" is the argument itself

filterVars == <<package, fd_arg, fd_host, fd_pc, fd_result>>

\* acbs/pm.py: one call of escape_package_name
VARIABLES
    name,          \* the argument
    escaped_name,  \* the returned string
    esc_pc         \* "idle", "call" or "returned"

escVars == <<name, escaped_name, esc_pc>>

pureVars == <<filterVars, escVars>>

vars == <<pmVars, depVars, buildVars, pureVars>>

(***************************************************************************)
(* Host package-manager bridge: acbs/pm.py                                 *)
(***************************************************************************)

\* Package names are sequences of characters.
InstPool == { <<"g", "c", "c", "+">>, <<"l", "i", "b", "?">>, <<"z">> }

\* Longest package list handed to install_from_repo in the model.
MaxPkgs == 2

RECURSIVE SeqsUpTo(_, _)
SeqsUpTo(S, n) ==
    IF n = 0 THEN { <<>> }
    ELSE LET shorter == SeqsUpTo(S, n - 1)
         IN  shorter \cup { Append(s, x) : s \in { t \in shorter : Len(t) = n - 1 }, x \in S }

\* the character class [+*?] of the pattern
Special_NoQuestion(c) == c \in {"+", "*"}
Special(c) == c \in {"+", "*", "?"}

\* re.sub(r'([+*?])', '\\\\\\1', name): every match is replaced by one backslash
\* and the matched character
RECURSIVE escape_package_name(_)
escape_package_name(str) ==
    IF str = <<>> THEN <<>>
    ELSE LET c == Head(str)
         IN  (IF Special(c) THEN <<"\\", c>> ELSE <<c>>)
                 \o escape_package_name(Tail(str))

\* the loop of install_from_repo that escapes every name
EscapeAll(pkgs) == [i \in 1..Len(pkgs) |-> escape_package_name(pkgs[i])]

\* outcomes of subprocess.check_call: success, non-zero exit
\* (CalledProcessError), failure to launch (OSError)
CallResults == {"ok", "nonzero", "oserror"}

\* outcomes of one pass through the try block of fix_pm_states: both commands
\* succeed, the force-repair raises, or the repair succeeds and the install
\* raises
TryOutcomes == {"ok", "repair_failed", "install_failed"}

\* how many passes the environment has an outcome ready for
MaxTries == 4

Cmd(by, cmd, args, res) == [by |-> by, cmd |-> cmd, args |-> args, res |-> res]

\* the commands one pass through the try block runs
TryCmds(esc, outcome) ==
    IF outcome = "repair_failed"
    THEN << Cmd("fix_pm_states", "repair", <<>>, "failed") >>
    ELSE << Cmd("fix_pm_states", "repair", <<>>, "ok"),
            Cmd("fix_pm_states", "install", esc,
                IF outcome = "ok" THEN "ok" ELSE "failed") >>

\* while count < 3
FixLoop_OneMore(c) == c < 4
FixLoop(c) == c < 3

\* the loop of fix_pm_states from a value of count on; tries[k] is the
\* outcome of the k-th pass
RECURSIVE FixFrom(_, _, _, _)
FixFrom(c, esc, tries, log) ==
    IF ~FixLoop(c)
    THEN [cmds |-> log, count |-> c, raised |-> TRUE]
    ELSE LET outcome == tries[c + 1]
             log2 == log \o TryCmds(esc, outcome)
         IN  IF outcome = "ok"
             THEN [cmds |-> log2, count |-> c, raised |-> FALSE]
             ELSE FixFrom(c + 1, esc, tries, log2)

fix_pm_states(esc, tries) == FixFrom(0, esc, tries, <<>>)

\* which failures of the first install install_from_repo handles:
\* except subprocess.CalledProcessError
CaughtByInstall(res) == res = "nonzero"

\* install_from_repo(packages), where the first install command ends with
\* `first` and the passes of fix_pm_states end as `tries` says
install_from_repo(pkgs, first, tries) ==
    LET esc == EscapeAll(pkgs)
        cmd1 == Cmd("install_from_repo", "install", esc, first)
    IN  IF first = "ok"
        THEN [escaped |-> esc, cmds |-> <<cmd1>>, count |-> 0,
              fix_calls |-> 0, exc |-> "none"]
        ELSE IF CaughtByInstall(first)
        THEN LET fix == fix_pm_states(esc, tries)
             IN  [escaped |-> esc, cmds |-> <<cmd1>> \o fix.cmds,
                  count |-> fix.count, fix_calls |-> 1,
                  exc |-> IF fix.raised THEN "RuntimeError" ELSE "none"]
        ELSE [escaped |-> esc, cmds |-> <<cmd1>>, count |-> 0,
              fix_calls |-> 0, exc |-> "OSError"]

PmInit ==
    /\ pm_pc = "idle"
    /\ pm_pkgs = <<>>
    /\ escaped = <<>>
    /\ count = 0
    /\ fix_calls = 0
    /\ cmds = <<>>
    /\ pm_exc = "none"

PmDone == pm_pc \in {"returned", "raised"}

\* every way install_from_repo(pkgs) can run, over the outcomes of the
\* commands it launches
InstallRuns ==
    [pkgs \in SeqsUpTo(InstPool, MaxPkgs) |->
        { install_from_repo(pkgs, first, tries) :
            first \in CallResults, tries \in [1..MaxTries -> TryOutcomes] }]

\* a caller invokes install_from_repo with a list of names
InstallFromRepo ==
    \E pkgs \in SeqsUpTo(InstPool, MaxPkgs) :
      \E run \in InstallRuns[pkgs] :
            /\ pm_pkgs' = pkgs
            /\ escaped' = run.escaped
            /\ count' = run.count
            /\ fix_calls' = run.fix_calls
            /\ cmds' = run.cmds
            /\ pm_exc' = run.exc
            /\ pm_pc' = IF run.exc = "none" THEN "returned" ELSE "raised"
            /\ UNCHANGED <<depVars, buildVars, pureVars>>

(***************************************************************************)
(* Dependency coordinator: acbs/deps.py                                    *)
(***************************************************************************)

\* Dependency names of the coordinator; " " is a blank entry.
DepNames == {"a", "b"}
Blank == " "
MaxBuildDeps == 2
MaxRunDeps == 1

\* i.strip() is empty
IsBlank(i) == i = Blank

NoResult == [kind |-> "pending", value |-> <<>>]
Returned(kind, value) == [kind |-> kind, value |-> value]

DepInit ==
    /\ retry = 0
    /\ dp_pc = "idle"
    /\ dp_args = [build_deps |-> <<>>, run_deps |-> <<>>, pkg_slug |-> "a"]
    /\ installed = {}
    /\ available = {}
    /\ entries = <<>>
    /\ installs = 0
    /\ to_install = <<>>
    /\ inv_result = NoResult
    /\ dp_result = NoResult

Range(s) == { s[i] : i \in 1..Len(s) }

\* PackageManager.query_current_miss_pkgs: the names that are not installed
query_current_miss_pkgs(pkgs) ==
    LET missing(x) == x \notin installed IN SelectSeq(pkgs, missing)

\* PackageManager.query_online_pkgs: the names the repository offers
query_online_pkgs(pkgs) ==
    LET online(x) == x \in available IN SelectSeq(pkgs, online)

\* acbs.utils.uniq: first occurrences, in order
RECURSIVE uniq(_)
uniq(s) ==
    IF s = <<>> THEN <<>>
    ELSE LET init == uniq(SubSeq(s, 1, Len(s) - 1))
             last == s[Len(s)]
         IN  IF last \in Range(init) THEN init ELSE Append(init, last)

\* Dependencies.search_deps: (pkgs_to_install, None) or (None, pkgs_not_avail);
\* None is modelled by the flag
search_deps(search_pkgs) ==
    LET pkgs_miss == query_current_miss_pkgs(search_pkgs)
        pkgs_to_install == query_online_pkgs(pkgs_miss)
        pkgs_not_avail == Range(pkgs_miss) \ Range(pkgs_to_install)
    IN  IF pkgs_not_avail # {}
        THEN [to_install |-> <<>>, has_to_install |-> FALSE,
              not_avail |-> pkgs_not_avail, has_not_avail |-> TRUE]
        ELSE [to_install |-> pkgs_to_install, has_to_install |-> TRUE,
              not_avail |-> {}, has_not_avail |-> FALSE]

SelfDependencyFails_WholeList(tmp, pkg_slug) ==
    /\ pkg_slug \in Range(tmp)
    /\ search_deps(tmp).has_not_avail

\* the self-dependency test of the for loop: some entry equals pkg_slug and
\* search_deps([i]) reports it unavailable
SelfDependencyFails(tmp, pkg_slug) ==
    \E k \in 1..Len(tmp) :
        /\ tmp[k] = pkg_slug
        /\ search_deps(<<tmp[k]>>).has_not_avail

\* the entries the for loop keeps: if not i.strip(): continue
NonBlank(tmp) == LET keep(i) == ~IsBlank(i) IN SelectSeq(tmp, keep)

\* if self.retry > 1
ExhaustMode_Late(r) == r > 2
ExhaustMode(r) == r > 1

\* process_deps from its entry to the first return, raise or install
\* (lines 21-51) as the outcome of one invocation entered with counter r
Invocation(args, r) ==
    LET tmp == args.build_deps \o args.run_deps
        searched == search_deps(NonBlank(tmp))
    IN  IF SelfDependencyFails(tmp, args.pkg_slug)
        THEN [next |-> "done", res |-> Returned("ACBSGeneralError", <<>>), inst |-> <<>>]
        ELSE IF ExhaustMode(r)
        THEN \* uniq((pkgs_not_avail or []) + (pkgs_to_install or [])):
             \* a non-empty pkgs_not_avail is a set, and set + list raises
             IF searched.has_not_avail
             THEN [next |-> "done", res |-> Returned("TypeError", <<>>), inst |-> <<>>]
             ELSE [next |-> "done", res |-> Returned("exhaust", uniq(searched.to_install)),
                   inst |-> <<>>]
        ELSE IF searched.has_not_avail
        THEN [next |-> "done", res |-> Returned("not_avail", searched.not_avail), inst |-> <<>>]
        ELSE IF searched.to_install = <<>>
        THEN [next |-> "done", res |-> Returned("None", <<>>), inst |-> <<>>]
        ELSE [next |-> "install", res |-> NoResult, inst |-> searched.to_install]

\* what the caller of the outermost invocation receives when invocation
\* number depth ends with res: an exception propagates, a value returned by a
\* recursive invocation is dropped (line 59 has no return)
Delivered(depth, res) ==
    IF depth = 1 \/ res.kind \in {"ACBSGeneralError", "TypeError", "PmError"}
    THEN res
    ELSE Returned("None", <<>>)

\* a caller invokes process_deps(build_deps, run_deps, pkg_slug); the host's
\* package state is whatever it is at that moment
ProcessDeps ==
    /\ dp_pc = "idle"
    /\ \E bd \in SeqsUpTo(DepNames \cup {Blank}, MaxBuildDeps),
          rd \in SeqsUpTo(DepNames \cup {Blank}, MaxRunDeps),
          slug \in DepNames,
          inst \in SUBSET DepNames,
          avail \in SUBSET DepNames :
            /\ dp_args' = [build_deps |-> bd, run_deps |-> rd, pkg_slug |-> slug]
            /\ installed' = inst
            /\ available' = avail
    /\ dp_pc' = "enter"
    /\ entries' = <<>>
    /\ installs' = 0
    /\ to_install' = <<>>
    /\ inv_result' = NoResult
    /\ dp_result' = NoResult
    /\ UNCHANGED retry
    /\ UNCHANGED <<pmVars, buildVars, pureVars>>

\* one invocation of process_deps is entered and runs to its first return,
\* raise or install
Enter ==
    /\ dp_pc = "enter"
    /\ LET out == Invocation(dp_args, retry)
       IN  /\ entries' = Append(entries, retry)
           /\ dp_pc' = out.next
           /\ to_install' = out.inst
           /\ inv_result' = out.res
           /\ dp_result' = IF out.next = "done"
                           THEN Delivered(Len(entries) + 1, out.res)
                           ELSE NoResult
    /\ UNCHANGED <<retry, dp_args, installed, available, installs>>
    /\ UNCHANGED <<pmVars, buildVars, pureVars>>

\* self.acbs_pm.install_pkgs(pkgs_to_install): on success the invocation, and
\* every invocation above it, returns None; on any exception the handler runs
InstallPkgs ==
    /\ dp_pc = "install"
    /\ installs' = installs + 1
    /\ \/ /\ dp_pc' = "done"
          /\ installed' = installed \cup Range(to_install)
          /\ inv_result' = Returned("None", <<>>)
          /\ dp_result' = Returned("None", <<>>)
       \/ /\ dp_pc' = "correct"
          /\ UNCHANGED <<installed, inv_result, dp_result>>
    /\ UNCHANGED <<retry, dp_args, available, entries, to_install>>
    /\ UNCHANGED <<pmVars, buildVars, pureVars>>

\* self.retry += 1
NextRetry(r) == r + 1

\* the except handler: correct_deps(), retry += 1, the recursive call; an
\* exception of correct_deps leaves process_deps
CorrectDeps ==
    /\ dp_pc = "correct"
    /\ \/ /\ retry' = NextRetry(retry)
          /\ dp_pc' = "enter"
          /\ UNCHANGED <<inv_result, dp_result>>
       \/ /\ dp_pc' = "done"
          /\ inv_result' = Returned("PmError", <<>>)
          /\ dp_result' = Returned("PmError", <<>>)
          /\ UNCHANGED retry
    /\ UNCHANGED <<dp_args, installed, available, entries, installs, to_install>>
    /\ UNCHANGED <<pmVars, buildVars, pureVars>>

\* the caller has taken the result; the coordinator object lives on with
\* its counter
DepReturn ==
    /\ dp_pc = "done"
    /\ dp_pc' = "idle"
    /\ dp_args' = [build_deps |-> <<>>, run_deps |-> <<>>, pkg_slug |-> "a"]
    /\ installed' = {}
    /\ available' = {}
    /\ entries' = <<>>
    /\ installs' = 0
    /\ to_install' = <<>>
    /\ inv_result' = NoResult
    /\ dp_result' = NoResult
    /\ UNCHANGED retry
    /\ UNCHANGED <<pmVars, buildVars, pureVars>>

(***************************************************************************)
(* Package tree, dependency graph and resolver: acbs/find.py,              *)
(* acbs/parser.py and tarjan_search                                        *)
(***************************************************************************)

\* The package slugs of the tree, and the slug of its one meta-package.
Names == {1, 2, 3}
MetaSlug == "meta"
\* Longest declared dependency list and longest request.
MaxDeps == 1
MaxQueue == 2
\* The installables a package definition may carry.
InstChoices == { <<>>, << <<"g", "c", "c", "+">> >> }

\* the build directory the sub-packages of the meta-package are found with;
\* location 0 is the empty build_location
GroupDir == 1

RECURSIVE SeqOfSet(_)
\* the elements of a set of numbers in ascending order
SeqOfSet(S) ==
    IF S = {} THEN <<>>
    ELSE LET m == CHOOSE x \in S : \A y \in S : x <= y
         IN  <<m>> \o SeqOfSet(S \ {m})

\* the PackageTask the tree defines for a slug; installables are read from
\* the task when the build loop reaches it
Task(n) ==
    [name |-> n,
     base_slug |-> IF n \in tree.meta THEN MetaSlug ELSE "",
     deps |-> SeqOfSet(tree.deps[n]),
     build_location |-> IF n \in tree.meta THEN GroupDir ELSE 0]

\* find_package: the task of a plain package, or every sub-package of the
\* meta-package the name belongs to
find_package(n) ==
    IF n \notin tree.meta
    THEN << Task(n) >>
    ELSE LET members == SeqOfSet(tree.meta)
         IN  [k \in 1..Len(members) |-> Task(members[k])]

RECURSIVE FindAll(_)
\* lines 82-87 when every name is found
FindAll(queue) ==
    IF queue = <<>> THEN <<>>
    ELSE find_package(Head(queue)) \o FindAll(Tail(queue))

\* get_deps_graph: the slugs of the queue, in order, each once; the edges are
\* the declared dependencies
get_deps_graph(pkgs) == uniq([k \in 1..Len(pkgs) |-> pkgs[k].name])

Min(a, b) == IF a < b THEN a ELSE b

\* the search state of Tarjan's algorithm; index 0 is "not visited"
TarjanStart ==
    [index |-> [n \in Names |-> 0], lowlink |-> [n \in Names |-> 0],
     stack |-> <<>>, next |-> 1, results |-> <<>>]

RECURSIVE PopTo(_, _, _)
\* pops the stack down to v: the component, top of the stack first
PopTo(stack, v, comp) ==
    LET w == stack[Len(stack)]
        rest == SubSeq(stack, 1, Len(stack) - 1)
    IN  IF w = v
        THEN [stack |-> rest, comp |-> Append(comp, w)]
        ELSE PopTo(rest, v, Append(comp, w))

RECURSIVE strongly_connected(_, _)
RECURSIVE VisitDeps(_, _, _)
\* the loop over the dependencies of vert
VisitDeps(vert, ds, st) ==
    IF ds = <<>> THEN st
    ELSE LET p == Head(ds)
         IN  IF st.index[p] = 0
             THEN LET s1 == strongly_connected(p, st)
                  IN  VisitDeps(vert, Tail(ds),
                          [s1 EXCEPT !.lowlink[vert] = Min(@, s1.lowlink[p])])
             ELSE IF p \in Range(st.stack)
             THEN VisitDeps(vert, Tail(ds),
                      [st EXCEPT !.lowlink[vert] = Min(@, st.index[p])])
             ELSE VisitDeps(vert, Tail(ds), st)

\* visits vert; emits its component when vert is the root of one
strongly_connected(vert, st) ==
    LET s1 == [st EXCEPT !.index[vert] = st.next, !.lowlink[vert] = st.next,
                         !.next = st.next + 1, !.stack = Append(st.stack, vert)]
        s2 == VisitDeps(vert, Task(vert).deps, s1)
    IN  IF s2.lowlink[vert] = s2.index[vert]
        THEN LET popped == PopTo(s2.stack, vert, <<>>)
             IN  [s2 EXCEPT !.stack = popped.stack,
                            !.results = Append(@, popped.comp)]
        ELSE s2

RECURSIVE TarjanRoots(_, _)
TarjanRoots(nodes, st) ==
    IF nodes = <<>> THEN st
    ELSE TarjanRoots(Tail(nodes),
             IF st.index[Head(nodes)] = 0
             THEN strongly_connected(Head(nodes), st)
             ELSE st)

\* tarjan_search: the strongly connected components, dependencies first,
\* each a list of tasks
tarjan_search(graph) ==
    LET comps == TarjanRoots(graph, TarjanStart).results
    IN  [k \in 1..Len(comps) |-> [m \in 1..Len(comps[k]) |-> Task(comps[k][m])]]

\* utils.has_stamp: false for an empty location
has_stamp(loc) == loc # 0 /\ loc \in stamps

(***************************************************************************)
(* acbs/pm.py: filter_dependencies and escape_package_name on their own    *)
(***************************************************************************)

\* The dependency names of a package handed to filter_dependencies, and its
\* longest dependency list.
FilterNames == {"a", "b", "c"}
MaxFilterDeps == 3

\* check_if_installed: dpkg -s exits with 0
check_if_installed(dep) == dep \in fd_host.installed

\* check_if_available: apt-cache show exits with 0
check_if_available(dep) == dep \in fd_host.available

\* the two tests of the loop body, in their order (lines 16-21)
Class_AvailableFirst(dep) ==
    IF check_if_available(dep) THEN "available"
    ELSE IF check_if_installed(dep) THEN "installed"
    ELSE "source"
Class(dep) ==
    IF check_if_installed(dep) THEN "installed"
    ELSE IF check_if_available(dep) THEN "available"
    ELSE "source"

RECURSIVE FilterLoop(_, _)
\* the for loop of filter_dependencies over the entries that are left
FilterLoop(rest, acc) ==
    IF rest = <<>> THEN acc
    ELSE LET dep == Head(rest)
             c == Class(dep)
         IN  FilterLoop(Tail(rest),
                 IF c = "installed" THEN acc
                 ELSE IF c = "available"
                 THEN [acc EXCEPT !.installables = Append(@, dep)]
                 ELSE [acc EXCEPT !.deps = Append(@, dep)])

\* filter_dependencies(package): the two local lists are built and then
\* assigned to the object's fields
filter_dependencies(pkg) ==
    LET out == FilterLoop(pkg.deps, [installables |-> <<>>, deps |-> <<>>])
    IN  [pkg EXCEPT !.deps = out.deps, !.installables = out.installables]

\* a package as the parser built it, and the host at the time of the call;
\* launch says whether dpkg and apt-cache can be started at all
FilterInit ==
    /\ package \in [name : {"p"},
                    deps : SeqsUpTo(FilterNames, MaxFilterDeps),
                    installables : { <<>>, <<"b">> },
                    base_slug : {"", MetaSlug},
                    build_location : {0}]
    /\ fd_arg = package
    /\ fd_host \in [installed : SUBSET FilterNames, available : SUBSET FilterNames,
                    launch : BOOLEAN]
    /\ fd_pc = "call"
    /\ fd_result = "none"

\* no call of filter_dependencies is under way
FilterIdle ==
    /\ package = [name |-> "p", deps |-> <<>>, installables |-> <<>>,
                  base_slug |-> "", build_location |-> 0]
    /\ fd_arg = package
    /\ fd_host = [installed |-> {}, available |-> {}, launch |-> TRUE]
    /\ fd_pc = "idle"
    /\ fd_result = "none"

\* the call runs: a command that cannot be started raises out of the loop at
\* the first entry, before the object is touched
FilterDependencies ==
    /\ fd_pc = "call"
    /\ IF fd_host.launch \/ package.deps = <<>>
       THEN /\ package' = filter_dependencies(package)
            /\ fd_result' = "package"
            /\ fd_pc' = "returned"
       ELSE /\ fd_pc' = "raised"
            /\ UNCHANGED <<package, fd_result>>
    /\ UNCHANGED <<fd_arg, fd_host>>
    /\ UNCHANGED <<pmVars, depVars, buildVars, escVars>>

\* The characters of a package name, and the longest name.
Chars == {"+", "*", "?", "a", "-", "\\"}
MaxNameLen == 3

EscInit ==
    /\ name \in SeqsUpTo(Chars, MaxNameLen)
    /\ escaped_name = <<>>
    /\ esc_pc = "call"

EscIdle ==
    /\ name = <<>>
    /\ escaped_name = <<>>
    /\ esc_pc = "idle"

\* escape_package_name(name) returns
EscapeName ==
    /\ esc_pc = "call"
    /\ escaped_name' = escape_package_name(name)
    /\ esc_pc' = "returned"
    /\ UNCHANGED name
    /\ UNCHANGED <<pmVars, depVars, buildVars, filterVars>>

(***************************************************************************)
(* Build driver: acbs/main.py                                              *)
(***************************************************************************)

\* the slugs a request can reach through dependencies and meta-packages
RECURSIVE Closure(_, _, _)
Closure(S, deps, meta) ==
    LET more == S \cup UNION { deps[n] : n \in S }
                  \cup (IF S \cap meta # {} THEN meta ELSE {})
    IN  IF more = S THEN S ELSE Closure(more, deps, meta)

\* the sequences without a repeated element
Distinct(S) == { q \in S : \A i, j \in 1..Len(q) : q[i] = q[j] => i = j }

\* BuildCore.__init__ with its arguments, and the tree the run will read; a
\* slug the request cannot reach has no definition that matters, and the
\* meta-package is requested through one of its names
BuildInit ==
    /\ build_queue \in Distinct(SeqsUpTo(Names, MaxQueue)) \ { <<>> }
    /\ no_deps \in BOOLEAN
    /\ dl_only \in BOOLEAN
    /\ \E deps \in [Names -> { D \in SUBSET Names : Cardinality(D) <= MaxDeps }],
          meta \in { M \in SUBSET Names : Cardinality(M) # 1 } :
            /\ \A n \in Names \ Closure(Range(build_queue), deps, meta) :
                  deps[n] = {} /\ n \notin meta
            /\ Cardinality(Range(build_queue) \cap meta) <= 1
            /\ tree = [deps |-> deps, meta |-> meta]
    /\ b_pc = "find"
    /\ found = <<>>
    /\ packages = <<>>
    /\ resolved = <<>>
    /\ error = FALSE
    /\ loops = <<>>
    /\ idx = 0
    /\ stamps = {}
    /\ next_dir = GroupDir + 1
    /\ build_timings = <<>>
    /\ printed = <<>>
    /\ events = <<>>
    /\ b_exc = "none"

\* no BuildCore exists
BuildIdle ==
    /\ build_queue = <<>>
    /\ no_deps = FALSE
    /\ dl_only = FALSE
    /\ tree = [deps |-> [n \in Names |-> {}], meta |-> {}]
    /\ b_pc = "idle"
    /\ found = <<>>
    /\ packages = <<>>
    /\ resolved = <<>>
    /\ error = FALSE
    /\ loops = <<>>
    /\ idx = 0
    /\ stamps = {}
    /\ next_dir = GroupDir + 1
    /\ build_timings = <<>>
    /\ printed = <<>>
    /\ events = <<>>
    /\ b_exc = "none"

Ev(op, i, arg) == [op |-> op, task |-> i, arg |-> arg]

Abort(exc) == b_pc' = "aborted" /\ b_exc' = exc

\* lines 82-87: every requested name is looked up; a name the tree lacks
\* ends the run
FindPackages ==
    /\ b_pc = "find"
    /\ \/ /\ packages' = FindAll(build_queue)
          /\ found' = FindAll(build_queue)
          /\ b_pc' = "resolve"
          /\ UNCHANGED b_exc
       \/ /\ Abort("Could not find package")
          /\ UNCHANGED <<packages, found>>
    /\ UNCHANGED <<build_queue, no_deps, dl_only, tree, resolved, error, loops,
                   idx, stamps, next_dir, build_timings, printed, events>>
    /\ UNCHANGED <<pmVars, depVars, pureVars>>

\* if not self.no_deps
UseGraph_Always(nd) == TRUE
UseGraph(nd) == ~nd

\* lines 88-95
Resolve ==
    /\ b_pc = "resolve"
    /\ IF UseGraph(no_deps)
       THEN /\ resolved' = tarjan_search(get_deps_graph(packages))
            /\ events' = events \o << Ev("get_deps_graph", 0, <<>>),
                                      Ev("tarjan_search", 0, <<>>) >>
       ELSE /\ resolved' = [k \in 1..Len(packages) |-> << packages[k] >>]
            /\ UNCHANGED events
    /\ b_pc' = "scan"
    /\ UNCHANGED <<build_queue, no_deps, dl_only, tree, found, packages, error,
                   loops, idx, stamps, next_dir, build_timings, printed, b_exc>>
    /\ UNCHANGED <<pmVars, depVars, pureVars>>

\* if len(dep) > 1
IsLoop_OverTwo(dep) == Len(dep) > 2
IsLoop(dep) == Len(dep) > 1

\* packages.extend(dep)
Extend_AtFront(pkgs, dep) == dep \o pkgs
Extend(pkgs, dep) == pkgs \o dep

\* elif not error
MayEnqueue_Always(err) == TRUE
MayEnqueue(err) == ~err

RECURSIVE ScanFrom(_, _)
\* the loop of lines 100-107 over the components that are left
ScanFrom(rest, st) ==
    IF rest = <<>> THEN st
    ELSE LET dep == Head(rest)
         IN  ScanFrom(Tail(rest),
                 IF IsLoop(dep)
                 THEN [st EXCEPT !.loops = Append(@, dep), !.error = TRUE]
                 ELSE IF MayEnqueue(st.error)
                 THEN [st EXCEPT !.packages = Extend(@, dep)]
                 ELSE st)

\* lines 98-110: packages.clear(), the scan, and the raise
Scan ==
    /\ b_pc = "scan"
    /\ LET st == ScanFrom(resolved, [packages |-> <<>>, error |-> FALSE, loops |-> <<>>])
       IN  /\ packages' = st.packages
           /\ error' = st.error
           /\ loops' = st.loops
           /\ IF st.error
              THEN Abort("Dependencies NOT resolved")
              ELSE b_pc' = "check" /\ UNCHANGED b_exc
    /\ UNCHANGED <<build_queue, no_deps, dl_only, tree, found, resolved, idx,
                   stamps, next_dir, build_timings, printed, events>>
    /\ UNCHANGED <<pmVars, depVars, pureVars>>

\* The slugs a resolved sequence may name, its longest component and its
\* greatest number of components.
ScanNames == 1..5
MaxLoop == 2
MaxComps == 3

PlainTask(n) == [name |-> n, base_slug |-> "", deps |-> <<>>, build_location |-> 0]

\* the components a resolver can emit: one slug, or several that depend on
\* each other
Components == Distinct(SeqsUpTo(ScanNames, MaxLoop)) \ { <<>> }

RECURSIVE ResolvedUpTo(_)
\* the sequences of up to n components with no slug in two of them
ResolvedUpTo(n) ==
    IF n = 0 THEN { <<>> }
    ELSE LET shorter == ResolvedUpTo(n - 1)
         IN  shorter \cup
             UNION { { Append(r, c) :
                         c \in { d \in Components :
                                   \A k \in 1..Len(r) : Range(d) \cap Range(r[k]) = {} } } :
                     r \in { t \in shorter : Len(t) = n - 1 } }

RECURSIVE Concat(_)
Concat(ss) == IF ss = <<>> THEN <<>> ELSE Head(ss) \o Concat(Tail(ss))

\* build() at line 98, with any sequence of components in resolved
ScanInit ==
    /\ \E r \in ResolvedUpTo(MaxComps) \ { <<>> } :
          /\ resolved = [k \in 1..Len(r) |-> [m \in 1..Len(r[k]) |-> PlainTask(r[k][m])]]
          /\ build_queue = Concat(r)
    /\ packages = Concat(resolved)
    /\ found = packages
    /\ no_deps = FALSE
    /\ dl_only \in BOOLEAN
    /\ tree = [deps |-> [n \in Names |-> {}], meta |-> {}]
    /\ b_pc = "scan"
    /\ error = FALSE
    /\ loops = <<>>
    /\ idx = 0
    /\ stamps = {}
    /\ next_dir = GroupDir + 1
    /\ build_timings = <<>>
    /\ printed = <<>>
    /\ events = << Ev("get_deps_graph", 0, <<>>), Ev("tarjan_search", 0, <<>>) >>
    /\ b_exc = "none"

\* line 111: check_package_groups accepts the queue or raises; then the
\* build loop begins
CheckGroups ==
    /\ b_pc = "check"
    /\ \/ /\ b_pc' = "fetch"
          /\ idx' = 1
          /\ UNCHANGED b_exc
       \/ /\ Abort("check_package_groups")
          /\ UNCHANGED idx
    /\ UNCHANGED <<build_queue, no_deps, dl_only, tree, found, packages, resolved,
                   error, loops, stamps, next_dir, build_timings, printed, events>>
    /\ UNCHANGED <<pmVars, depVars, pureVars>>

\* source_name: the task's name, or the base name of its base_slug
SourceName(task) ==
    IF task.base_slug # "" THEN <<"base", task.base_slug>> ELSE <<"name", task.name>>

\* the for loop goes to its next task, or ends and line 157 prints the timings
Advance(timings) ==
    IF idx < Len(packages)
    THEN /\ idx' = idx + 1
         /\ b_pc' = "fetch"
         /\ UNCHANGED printed
    ELSE /\ b_pc' = "done"
         /\ printed' = Append(printed, timings)
         /\ UNCHANGED idx

\* if self.dl_only: continue
DlOnly_Never(flag) == FALSE
DlOnly(flag) == flag

\* if not has_stamp(task.build_location)
NeedsFetch_Always(task) == TRUE
NeedsFetch(task) == ~has_stamp(task.build_location)

\* lines 119-126: the fetch unless the build directory is stamped, and the
\* download-only short cut
FetchSource ==
    /\ b_pc = "fetch"
    /\ LET task == packages[idx]
       IN  IF NeedsFetch(task)
           THEN /\ events' = Append(events, Ev("fetch_source", idx, SourceName(task)))
                /\ \/ /\ IF DlOnly(dl_only)
                         THEN Advance(build_timings)
                         ELSE b_pc' = "stage" /\ UNCHANGED <<idx, printed>>
                      /\ UNCHANGED b_exc
                   \/ /\ Abort("fetch_source")
                      /\ UNCHANGED <<idx, printed>>
           ELSE /\ IF DlOnly(dl_only)
                   THEN Advance(build_timings)
                   ELSE b_pc' = "stage" /\ UNCHANGED <<idx, printed>>
                /\ UNCHANGED <<events, b_exc>>
    /\ UNCHANGED <<build_queue, no_deps, dl_only, tree, found, packages, resolved,
                   error, loops, stamps, next_dir, build_timings>>
    /\ UNCHANGED <<pmVars, depVars, pureVars>>

\* Path(...'.acbs-stamp').touch()
TouchStamp_Forgotten(st, loc) == st
TouchStamp(st, loc) == st \cup {loc}

\* if not task.build_location
NeedsDir_Always(task) == TRUE
NeedsDir(task) == task.build_location = 0

\* line 135 is reached when process_source of line 134 returned
Touches_Regardless(staged) == TRUE
Touches(staged) == staged

\* lines 127-136: a task without a build directory gets a fresh one and is
\* staged; a task with an unstamped one is staged and stamped; a stamped one
\* is reused; process_source may raise
Stage ==
    /\ b_pc = "stage"
    /\ LET task == packages[idx]
       IN  IF NeedsDir(task)
           THEN /\ packages' = [packages EXCEPT ![idx].build_location = next_dir]
                /\ next_dir' = next_dir + 1
                /\ events' = events \o << Ev("make_build_dir", idx, next_dir),
                                          Ev("process_source", idx, next_dir) >>
                /\ UNCHANGED stamps
                /\ \/ b_pc' = "root" /\ UNCHANGED b_exc
                   \/ Abort("process_source")
           ELSE IF ~has_stamp(task.build_location)
           THEN /\ UNCHANGED <<packages, next_dir>>
                /\ \E staged \in BOOLEAN :
                      /\ events' = events
                            \o << Ev("process_source", idx, task.build_location) >>
                            \o (IF Touches(staged)
                                THEN << Ev("touch_stamp", idx, task.build_location) >>
                                ELSE <<>>)
                      /\ stamps' = IF Touches(staged)
                                   THEN TouchStamp(stamps, task.build_location)
                                   ELSE stamps
                      /\ IF staged
                         THEN b_pc' = "root" /\ UNCHANGED b_exc
                         ELSE Abort("process_source")
           ELSE /\ b_pc' = "root"
                /\ UNCHANGED <<packages, next_dir, events, stamps, b_exc>>
    /\ UNCHANGED <<build_queue, no_deps, dl_only, tree, found, resolved, error,
                   loops, idx, build_timings, printed>>
    /\ UNCHANGED <<pmVars, depVars, pureVars>>

\* lines 137-144: the source root is the declared subdir or the guessed one;
\* no guess is a RuntimeError
SourceRoot ==
    /\ b_pc = "root"
    /\ \E subdir \in BOOLEAN, guessed \in BOOLEAN :
          IF subdir \/ guessed
          THEN b_pc' = "install" /\ UNCHANGED b_exc
          ELSE Abort("Could not determine sub-directory")
    /\ UNCHANGED <<build_queue, no_deps, dl_only, tree, found, packages, resolved,
                   error, loops, idx, stamps, next_dir, build_timings, printed,
                   events>>
    /\ UNCHANGED <<pmVars, depVars, pureVars>>

\* if task.installables
HasInstallables_Never(inst) == FALSE
HasInstallables(inst) == inst # <<>>

\* lines 145-147: task.installables is read, and install_from_repo is called
\* with it when there are any; an exception of it ends the run
Install ==
    /\ b_pc = "install"
    /\ \E installables \in InstChoices :
          IF HasInstallables(installables)
          THEN \E run \in InstallRuns[installables] :
                  /\ events' = events \o << Ev("installables", idx, installables),
                                            Ev("install_from_repo", idx, installables) >>
                  /\ IF run.exc = "none"
                     THEN b_pc' = "build" /\ UNCHANGED b_exc
                     ELSE Abort(run.exc)
          ELSE /\ events' = Append(events, Ev("installables", idx, installables))
               /\ b_pc' = "build"
               /\ UNCHANGED b_exc
    /\ UNCHANGED <<build_queue, no_deps, dl_only, tree, found, packages, resolved,
                   error, loops, idx, stamps, next_dir, build_timings, printed>>
    /\ UNCHANGED <<pmVars, depVars, pureVars>>

\* build_timings.append((task.name, ...))
RecordTiming_Skipped(timings, task) == timings
RecordTiming(timings, task) == Append(timings, task.name)

\* lines 148-157: the build tool runs; a failure prints the timings gathered
\* so far, if any, and raises; a success records the task's timing
Build ==
    /\ b_pc = "build"
    /\ events' = Append(events, Ev("invoke_autobuild", idx, packages[idx].name))
    /\ \/ /\ build_timings' = RecordTiming(build_timings, packages[idx])
          /\ Advance(RecordTiming(build_timings, packages[idx]))
          /\ UNCHANGED b_exc
       \/ /\ printed' = IF build_timings # <<>>
                        THEN Append(printed, build_timings)
                        ELSE printed
          /\ Abort("Error when building")
          /\ UNCHANGED <<build_timings, idx>>
    /\ UNCHANGED <<build_queue, no_deps, dl_only, tree, found, packages, resolved,
                   error, loops, stamps, next_dir>>
    /\ UNCHANGED <<pmVars, depVars, pureVars>>

(***************************************************************************)
(* Specifications                                                          *)
(***************************************************************************)

PureIdle == FilterIdle /\ EscIdle

Init == PmInit /\ DepInit /\ BuildInit /\ PureIdle

\* one run of BuildCore.build
Next ==
    \/ FindPackages
    \/ Resolve
    \/ Scan
    \/ CheckGroups
    \/ FetchSource
    \/ Stage
    \/ SourceRoot
    \/ Install
    \/ Build

Spec == Init /\ [][Next]_vars

\* install_from_repo called over and over by some caller
NextPm == InstallFromRepo

InitPm == PmInit /\ DepInit /\ BuildIdle /\ PureIdle

SpecPm == InitPm /\ [][NextPm]_vars

\* one Dependencies coordinator serving call after call
NextDeps ==
    \/ ProcessDeps
    \/ Enter
    \/ InstallPkgs
    \/ CorrectDeps
    \/ DepReturn

InitDeps == PmInit /\ DepInit /\ BuildIdle /\ PureIdle

SpecDeps == InitDeps /\ [][NextDeps]_vars

\* the process runs on: a subprocess call returns, and the interpreter takes
\* the next step
SpecDepsFair ==
    /\ SpecDeps
    /\ WF_vars(Enter)
    /\ WF_vars(InstallPkgs)
    /\ WF_vars(CorrectDeps)

\* the scan of lines 98-110 over every sequence a resolver can hand back
NextScan == Scan

InitScan == PmInit /\ DepInit /\ ScanInit /\ PureIdle

SpecScan == InitScan /\ [][NextScan]_vars

\* one call of filter_dependencies, for every package and host
NextFilter == FilterDependencies

InitFilter == PmInit /\ DepInit /\ BuildIdle /\ FilterInit /\ EscIdle

SpecFilter == InitFilter /\ [][NextFilter]_vars

\* one call of escape_package_name, for every name
NextEscape == EscapeName

InitEscape == PmInit /\ DepInit /\ BuildIdle /\ FilterIdle /\ EscInit

SpecEscape == InitEscape /\ [][NextEscape]_vars

(***************************************************************************)
(* Properties of acbs/pm.py                                                *)
(***************************************************************************)

ByFix(c) == c.by = "fix_pm_states"
FixCmds == SelectSeq(cmds, ByFix)
IsRepair(c) == c.cmd = "repair"
Failed(c) == c.res # "ok"
\* an attempt begins with the force-repair command
Attempts == Len(SelectSeq(FixCmds, IsRepair))
\* an attempt fails at the one command of it that fails
FailedAttempts == Len(SelectSeq(FixCmds, Failed))

\* C1: fix_pm_states makes at most 3 attempts, each the force-repair command
\* and then, only if the repair succeeded, the install command; it returns at
\* the first attempt whose two commands succeed and runs nothing after it; it
\* raises the 'Unable to correct' error if and only if all 3 attempts failed,
\* after exactly 3 attempts.
C1_FixPmStates ==
    /\ Attempts <= 3
    /\ \A i \in 1..Len(FixCmds) :
        /\ FixCmds[i].cmd = "install" =>
              /\ i > 1
              /\ FixCmds[i - 1].cmd = "repair"
              /\ FixCmds[i - 1].res = "ok"
              /\ FixCmds[i].args = escaped
        /\ (FixCmds[i].cmd = "repair" /\ i > 1) => Failed(FixCmds[i - 1])
        /\ (FixCmds[i].cmd = "repair" /\ FixCmds[i].res = "ok") =>
              (i < Len(FixCmds) /\ FixCmds[i + 1].cmd = "install")
        /\ (FixCmds[i].cmd = "install" /\ FixCmds[i].res = "ok") =>
              i = Len(FixCmds) /\ pm_pc = "returned"
    /\ (fix_calls > 0 /\ pm_pc = "returned") =>
          /\ FixCmds # <<>>
          /\ FixCmds[Len(FixCmds)].cmd = "install"
          /\ FixCmds[Len(FixCmds)].res = "ok"
    /\ (pm_exc = "RuntimeError") <=> (FailedAttempts = 3)
    /\ (pm_exc = "RuntimeError") => (Attempts = 3 /\ pm_pc = "raised")

\* the third attempt failed at its install command and the error was raised
C1_Witness ==
    /\ pm_exc = "RuntimeError"
    /\ Attempts = 3
    /\ cmds[Len(cmds)].cmd = "install"

\* C2: whichever way the first install of install_from_repo fails (non-zero
\* exit or failure to launch), fix_pm_states is invoked with the escaped
\* names and an error reaches the caller only after its 3 attempts; if the
\* first install succeeds, fix_pm_states is not invoked.
C2_InstallFailureCorrected ==
    PmDone =>
        /\ Failed(cmds[1]) => fix_calls = 1
        /\ pm_pc = "raised" => FailedAttempts = 3
        /\ cmds[1].res = "ok" => (fix_calls = 0 /\ FixCmds = <<>>)

(***************************************************************************)
(* Properties of acbs/deps.py                                              *)
(***************************************************************************)

DepList == dp_args.build_deps \o dp_args.run_deps
\* the names of the list that are neither installed nor offered
Unresolved == { x \in Range(NonBlank(DepList)) : x \notin installed /\ x \notin available }
\* the names of the list that are not installed and offered
Installable == { x \in Range(NonBlank(DepList)) : x \notin installed /\ x \in available }
NoDuplicates(s) == \A i, j \in 1..Len(s) : s[i] = s[j] => i = j

\* C6: when the dependency list holds the package's own slug P: if P is
\* neither installed nor offered by the repository the call raises the
\* self-dependency error before any install is attempted; if P is offered the
\* self-reference raises no error and the call goes on.
C6_SelfDependency ==
    (Len(entries) >= 1 /\ dp_args.pkg_slug \in Range(DepList)) =>
        /\ (dp_args.pkg_slug \notin installed /\ dp_args.pkg_slug \notin available) =>
              /\ dp_result.kind = "ACBSGeneralError"
              /\ installs = 0
              /\ Len(entries) = 1
        /\ dp_args.pkg_slug \in available =>
              /\ dp_result.kind # "ACBSGeneralError"
              /\ inv_result.kind # "ACBSGeneralError"

\* P is in its own list with no binary, and the call raised
C6_Witness ==
    /\ dp_pc = "done"
    /\ dp_args.pkg_slug \in Range(DepList)
    /\ dp_args.pkg_slug \notin installed \cup available
    /\ dp_result.kind = "ACBSGeneralError"

\* C7: an invocation entered with the counter above 1 delivers to the caller
\* of process_deps the de-duplicated union of the unresolved and the
\* installable names, each once, and attempts no install.
C7_ExhaustUnion ==
    (/\ dp_pc = "done"
     /\ entries # <<>>
     /\ entries[Len(entries)] > 1
     /\ inv_result.kind # "ACBSGeneralError") =>
        /\ dp_result.kind = "exhaust"
        /\ Range(dp_result.value) = Unresolved \cup Installable
        /\ NoDuplicates(dp_result.value)

\* C8: every call of process_deps ends, even when every install fails: a call
\* on a fresh coordinator runs at most 3 invocations and at most 2 installs,
\* and its invocation entered with the counter above 1 returns in exhaust
\* mode; no invocation entered with the counter above 1 installs or recurses.
C8_Bounded ==
    /\ \A k \in 1..Len(entries) :
          entries[k] > 1 => (k = Len(entries) /\ dp_pc = "done")
    /\ (entries # <<>> /\ entries[1] = 0) =>
          /\ Len(entries) <= 3
          /\ installs <= 2
          /\ entries[Len(entries)] > 1 =>
                (inv_result.kind = "exhaust" /\ installs = 2 /\ Len(entries) = 3)

C8_Terminates == []C8_Bounded /\ ((dp_pc = "enter") ~> (dp_pc = "done"))

\* both installs failed and the third invocation ended the call
C8_Witness ==
    /\ dp_pc = "done"
    /\ entries = <<0, 1, 2>>
    /\ installs = 2
    /\ inv_result.kind = "exhaust"

(***************************************************************************)
(* Properties of acbs/main.py                                              *)
(***************************************************************************)

\* the calls of the per-package loop
LoopOps == {"fetch_source", "make_build_dir", "process_source", "touch_stamp",
            "install_from_repo", "invoke_autobuild"}
NamesOf(tasks) == [k \in 1..Len(tasks) |-> tasks[k].name]
RECURSIVE Flatten(_)
Flatten(ss) == IF ss = <<>> THEN <<>> ELSE Head(ss) \o Flatten(Tail(ss))
\* the events of one kind, in order
EventsOf(op) == LET is(e) == e.op = op IN SelectSeq(events, is)
\* the slugs the build tool was invoked for, in order
BuiltNames == LET evs == EventsOf("invoke_autobuild") IN [k \in 1..Len(evs) |-> evs[k].arg]
\* where a slug stands in a sequence of slugs; 0 when it is absent
Pos(seq, x) == IF x \in Range(seq) THEN CHOOSE k \in 1..Len(seq) : seq[k] = x ELSE 0
HasLoop == \E k \in 1..Len(resolved) : Len(resolved[k]) > 1

\* C3: with dependency resolution on, a resolved sequence that holds a
\* component of more than one task ends the run with 'Dependencies NOT
\* resolved' and nothing is fetched, staged, installed or built, wherever the
\* component stands in the sequence.
C3_CycleAborts ==
    (~no_deps /\ HasLoop) =>
        /\ \A k \in 1..Len(events) : events[k].op \notin LoopOps
        /\ b_pc \in {"scan", "aborted"}
        /\ b_pc = "aborted" => b_exc = "Dependencies NOT resolved"
        /\ idx = 0 /\ build_timings = <<>> /\ stamps = {} /\ printed = <<>>

\* a buildable package stands before the loop in the sequence, and the run
\* was aborted
C3_Witness ==
    /\ ~no_deps
    /\ b_exc = "Dependencies NOT resolved"
    /\ Len(resolved) >= 2
    /\ Len(resolved[1]) = 1
    /\ Len(resolved[2]) > 1

\* the slugs a slug depends on, directly or not
RECURSIVE DepsClosure(_)
DepsClosure(S) ==
    LET more == S \cup UNION { tree.deps[n] : n \in S }
    IN  IF more = S THEN S ELSE DepsClosure(more)
Acyclic == \A n \in Names : n \notin DepsClosure(tree.deps[n])

\* C4: with dependency resolution on and an acyclic graph, for every edge
\* A -> B the dependency B is emitted before A, the queue is the emitted
\* sequence flattened, the build tool runs in queue order, and so B is built
\* before A.
C4_DependenciesFirst ==
    (~no_deps /\ Acyclic /\ b_pc \notin {"find", "resolve"} /\ found # <<>>) =>
        LET order == NamesOf(Flatten(resolved))
        IN  /\ \A k \in 1..Len(resolved) : Len(resolved[k]) = 1
            /\ \A A \in Range(order) : \A B \in tree.deps[A] :
                  Pos(order, B) # 0 /\ Pos(order, B) < Pos(order, A)
            /\ b_pc # "scan" => NamesOf(packages) = order
            /\ Len(BuiltNames) <= Len(order)
            /\ BuiltNames = SubSeq(order, 1, Len(BuiltNames))
            /\ \A A \in Range(BuiltNames) : \A B \in tree.deps[A] :
                  Pos(BuiltNames, B) # 0 /\ Pos(BuiltNames, B) < Pos(BuiltNames, A)

\* a chain A -> B -> C was resolved and all three were built
C4_Witness ==
    /\ ~no_deps
    /\ b_pc = "done"
    /\ Len(BuiltNames) = 3
    /\ \E A, B, C \in Names :
          /\ A # B /\ B # C /\ A # C
          /\ B \in tree.deps[A]
          /\ C \in tree.deps[B]
          /\ BuiltNames = <<C, B, A>>

\* the slugs the requested names stand for, in request order
RECURSIVE Requested(_)
Requested(queue) ==
    IF queue = <<>> THEN <<>>
    ELSE (IF Head(queue) \in tree.meta THEN SeqOfSet(tree.meta) ELSE << Head(queue) >>)
             \o Requested(Tail(queue))

\* C5: with no_deps set, neither the graph is built nor the Tarjan search
\* run; the resolved sequence is one singleton per found task in the order
\* found from the requested names, and no cycle error is raised whatever the
\* packages declare.
C5_NoDepsBypass ==
    no_deps =>
        /\ \A k \in 1..Len(events) :
              events[k].op \notin {"get_deps_graph", "tarjan_search"}
        /\ b_exc # "Dependencies NOT resolved"
        /\ ~error /\ loops = <<>>
        /\ (b_pc \notin {"find", "resolve"} /\ found # <<>>) =>
              /\ Len(resolved) = Len(found)
              /\ \A k \in 1..Len(resolved) : resolved[k] = << found[k] >>
              /\ NamesOf(Flatten(resolved)) = Requested(build_queue)
              /\ b_pc # "scan" => NamesOf(packages) = Requested(build_queue)

\* two requested packages that depend on each other were both built
C5_Witness ==
    /\ no_deps
    /\ b_pc = "done"
    /\ Len(build_queue) = 2
    /\ build_queue[2] \in tree.deps[build_queue[1]]
    /\ build_queue[1] \in tree.deps[build_queue[2]]
    /\ BuiltNames = build_queue

\* the loop has taken task j past its staging step
Staged(j) ==
    \/ b_pc = "done"
    \/ idx > j
    \/ idx = j /\ b_pc \in {"root", "install", "build"}

\* the events of a kind that belong to the tasks of a set of queue positions
EventsFor(op, tasks) ==
    LET is(e) == e.op = op /\ e.task \in tasks IN SelectSeq(events, is)

\* C9: in a run that is not download-only, two tasks of the queue with the
\* same non-empty base_slug have the same build_location, and their source is
\* staged once: the first sub-package stages and writes the stamp, a later
\* one finds the stamp and neither fetches nor stages.
C9_SharedLocation ==
    (~dl_only /\ idx >= 1) =>
        \A i, j \in 1..Len(packages) :
            (i < j /\ packages[i].base_slug # ""
                   /\ packages[i].base_slug = packages[j].base_slug) =>
                LET group == { k \in 1..Len(packages) :
                                  packages[k].base_slug = packages[i].base_slug }
                    first == CHOOSE k \in group : \A m \in group : k <= m
                    staged == EventsFor("process_source", group)
                IN  /\ packages[i].build_location # 0
                    /\ packages[i].build_location = packages[j].build_location
                    /\ Len(staged) <= 1
                    /\ EventsFor("process_source", {j}) = <<>>
                    /\ EventsFor("fetch_source", {j}) = <<>>
                    /\ Staged(j) =>
                          /\ Len(staged) = 1
                          /\ staged[1].task = first
                          /\ Len(EventsFor("touch_stamp", {first})) = 1
                          /\ packages[j].build_location \in stamps

\* both sub-packages of the meta-package were built
C9_Witness ==
    /\ ~dl_only
    /\ b_pc = "done"
    /\ \E i, j \in 1..Len(packages) :
          /\ i < j
          /\ packages[i].base_slug = MetaSlug
          /\ packages[j].base_slug = MetaSlug
          /\ {packages[i].name, packages[j].name} \subseteq Range(BuiltNames)

\* C10: in download-only mode fetch_source is invoked for every task of the
\* queue, no build directory is allocated, nothing is staged, stamped,
\* installed or built, and the run ends with an empty timing list.
C10_DownloadOnly ==
    dl_only =>
        /\ \A k \in 1..Len(events) :
              events[k].op \notin {"make_build_dir", "process_source", "touch_stamp",
                                   "install_from_repo", "invoke_autobuild"}
        /\ stamps = {}
        /\ next_dir = GroupDir + 1
        /\ build_timings = <<>>
        /\ \A k \in 1..Len(packages) :
              packages[k].build_location = Task(packages[k].name).build_location
        /\ b_pc = "done" =>
              LET fetched == EventsOf("fetch_source")
              IN  /\ Len(fetched) = Len(packages)
                  /\ \A k \in 1..Len(fetched) : fetched[k].task = k
                  /\ printed = << <<>> >>

\* a download-only run over a meta-package and a plain package ended
C10_Witness ==
    /\ dl_only
    /\ b_pc = "done"
    /\ \E i, j \in 1..Len(packages) :
          packages[i].base_slug = MetaSlug /\ packages[j].base_slug = ""
    /\ Len(EventsOf("fetch_source")) = Len(packages)

(***************************************************************************)
(* Properties of filter_dependencies and escape_package_name               *)
(***************************************************************************)

\* C13: after every call of filter_dependencies the package's deps holds
\* every name of its installables.
C13_DepsHoldInstallables ==
    fd_pc = "returned" =>
        \A k \in 1..Len(package.installables) :
            \E j \in 1..Len(package.deps) : package.deps[j] = package.installables[k]

NotInstalled(x) == x \notin fd_host.installed
OnlyAvailable(x) == x \notin fd_host.installed /\ x \in fd_host.available
FromSource(x) == x \notin fd_host.installed /\ x \notin fd_host.available

\* C14: filter_dependencies puts every entry of the original deps in exactly
\* one class, testing installed before available: installed entries are in
\* neither list, entries available and not installed are the installables,
\* the others are the deps; both lists keep the original order; the object
\* passed is the object returned and no other field of it changes.
C14_FilterPartition ==
    fd_pc = "returned" =>
        /\ package.installables = SelectSeq(fd_arg.deps, OnlyAvailable)
        /\ package.deps = SelectSeq(fd_arg.deps, FromSource)
        /\ Len(package.installables) + Len(package.deps)
              = Len(SelectSeq(fd_arg.deps, NotInstalled))
        /\ package.name = fd_arg.name
        /\ package.base_slug = fd_arg.base_slug
        /\ package.build_location = fd_arg.build_location
        /\ fd_result = "package"

\* all three classes in one list, one name both installed and available
C14_Witness ==
    /\ fd_pc = "returned"
    /\ fd_arg.deps = <<"c", "a", "b">>
    /\ fd_host.installed = {"a"}
    /\ fd_host.available = {"a", "b"}
    /\ package.installables = <<"b">>
    /\ package.deps = <<"c">>

\* how many of the first i characters of s are '+', '*' or '?'
NumSpecial(s, i) == Cardinality({ k \in 1..i : s[k] \in {"+", "*", "?"} })

\* C15: escape_package_name returns its input with one backslash put before
\* every '+', '*' and '?' and every other character kept in place and in
\* order; a name without these three characters is returned as it is.
C15_Escape ==
    esc_pc = "returned" =>
        /\ Len(escaped_name) = Len(name) + NumSpecial(name, Len(name))
        /\ \A i \in 1..Len(name) :
              LET at == i + NumSpecial(name, i)
              IN  /\ escaped_name[at] = name[i]
                  /\ name[i] \in {"+", "*", "?"} => escaped_name[at - 1] = "\\"
        /\ NumSpecial(name, Len(name)) = 0 => escaped_name = name

\* a name with two of the characters, '?' among them
C15_Witness ==
    /\ esc_pc = "returned"
    /\ name = <<"a", "+", "?">>
    /\ escaped_name = <<"a", "\\", "+", "\\", "?">>

(***************************************************************************)
(* More properties of acbs/main.py                                         *)
(***************************************************************************)

\* the build directory of a task holds the stamp
Stamped(task) == task.build_location # 0 /\ task.build_location \in stamps
\* the events a step adds
Added == SubSeq(events', Len(events) + 1, Len(events'))
\* the events of one kind logged for the task at position i of the queue
TaskEvents(op, i) == LET is(e) == e.op = op /\ e.task = i IN SelectSeq(events, is)

\* C11: in the build loop fetch_source is invoked for a task exactly when its
\* build_location is empty or its directory holds no stamp at that moment; a
\* task whose directory is stamped triggers neither a fetch nor
\* process_source.
C11_StampGatedFetch ==
    [][ /\ b_pc = "fetch" =>
              IF Stamped(packages[idx])
              THEN events' = events
              ELSE Added = << Ev("fetch_source", idx, SourceName(packages[idx])) >>
        /\ (b_pc = "stage" /\ Stamped(packages[idx])) => events' = events
        /\ \A k \in 1..Len(Added) :
              Added[k].op \in {"fetch_source", "process_source"} =>
                  (Added[k].task = idx /\ ~Stamped(packages[idx]))
      ]_vars

\* the second sub-package went past the fetch and the staging with a stamped
\* directory and caused neither
C11_Witness ==
    /\ b_pc = "root"
    /\ idx = 2
    /\ Stamped(packages[2])
    /\ TaskEvents("fetch_source", 1) # <<>>
    /\ TaskEvents("fetch_source", 2) = <<>>
    /\ TaskEvents("process_source", 2) = <<>>

\* the names of the first n tasks of the queue
FirstNames(n) == [k \in 1..n |-> packages[k].name]

\* C12: when the build tool fails for the k-th task after k-1 successful
\* builds, what was printed before the error holds exactly the k-1 earlier
\* entries in build order, and no task after the k-th is fetched, staged or
\* built; a run that builds every task ends with a report of one entry per
\* task in build order.
C12_TimingReport ==
    /\ b_exc = "Error when building" =>
          /\ build_timings = FirstNames(idx - 1)
          /\ printed = IF idx > 1 THEN << FirstNames(idx - 1) >> ELSE <<>>
          /\ BuiltNames = FirstNames(idx)
          /\ \A p \in 1..Len(events) : events[p].task <= idx
    /\ (b_pc = "done" /\ ~dl_only) =>
          /\ printed = << FirstNames(Len(packages)) >>
          /\ BuiltNames = FirstNames(Len(packages))

\* the second task failed to build and the report of the first was printed
C12_Witness ==
    /\ b_exc = "Error when building"
    /\ idx = 2
    /\ Len(packages) > 2
    /\ printed = << << packages[1].name >> >>

\* C16: through a run of build() the build_location of a task changes at most
\* once, from empty to a directory no task has, and a non-empty one is never
\* cleared or replaced.
C16_LocationSetOnce ==
    [][ \A i \in 1..Len(packages), j \in 1..Len(packages') :
            packages[i].name = packages'[j].name =>
                \/ packages'[j].build_location = packages[i].build_location
                \/ /\ packages[i].build_location = 0
                   /\ packages'[j].build_location # 0
                   /\ \A k \in 1..Len(packages) :
                         packages[k].build_location # packages'[j].build_location
                   /\ \A k \in 1..Len(found) :
                         found[k].build_location # packages'[j].build_location
      ]_vars

\* a run that allocated two directories and went on to its end
C16_Witness ==
    /\ b_pc = "done"
    /\ Len(TaskEvents("make_build_dir", 1)) = 1
    /\ Len(TaskEvents("make_build_dir", 2)) = 1
    /\ packages[1].build_location # 0
    /\ packages[2].build_location \notin {0, packages[1].build_location}

\* C17: for every task with installables, in a run that is not download-only,
\* install_from_repo is invoked with them after the task's source is staged
\* and before the build tool runs for the task; when the install raises, the
\* build tool runs neither for that task nor for a later one.
C17_InstallBeforeBuild ==
    /\ \A p \in 1..Len(events) :
          (events[p].op = "installables" /\ events[p].arg # <<>>) =>
              LET i == events[p].task
              IN  /\ p < Len(events)
                  /\ events[p + 1] = Ev("install_from_repo", i, events[p].arg)
                  /\ \E q \in 1..(p - 1) :
                        /\ events[q].op = "process_source"
                        /\ events[q].arg = packages[i].build_location
                  /\ \A q \in 1..Len(events) :
                        (events[q].op = "invoke_autobuild" /\ events[q].task = i) => q > p + 1
    /\ \A q \in 1..Len(events) :
          events[q].op = "invoke_autobuild" =>
              \E p \in 1..(q - 1) :
                  events[p].op = "installables" /\ events[p].task = events[q].task
    /\ \A p \in 1..Len(events) :
          events[p].op = "install_from_repo" =>
              (p > 1 /\ events[p - 1] = Ev("installables", events[p].task, events[p].arg))
    /\ b_exc \in {"RuntimeError", "OSError"} =>
          /\ events[Len(events)].op = "install_from_repo"
          /\ \A q \in 1..Len(events) :
                events[q].op = "invoke_autobuild" => events[q].task < idx

\* the first task was installed for and built; the install for the second
\* ended with state correction exhausted
C17_Witness ==
    /\ b_exc = "RuntimeError"
    /\ idx = 2
    /\ TaskEvents("install_from_repo", 1) # <<>>
    /\ BuiltNames = << packages[1].name >>
    /\ TaskEvents("install_from_repo", 2) # <<>>

IsLoopComp(c) == Len(c) > 1
\* the position of the first component of size > 1; past the end without one
FirstLoop ==
    IF \E k \in 1..Len(resolved) : IsLoopComp(resolved[k])
    THEN CHOOSE k \in 1..Len(resolved) :
            /\ IsLoopComp(resolved[k])
            /\ \A m \in 1..(k - 1) : ~IsLoopComp(resolved[m])
    ELSE Len(resolved) + 1

\* C18: the scan of the resolved sequence logs every component of size > 1,
\* those after the first too, and then raises; it enqueues a singleton only
\* when no component of size > 1 stands before it.
C18_ScanReportsAll ==
    b_pc # "scan" =>
        /\ loops = SelectSeq(resolved, IsLoopComp)
        /\ packages = Concat(SubSeq(resolved, 1, FirstLoop - 1))
        /\ (loops # <<>>) <=> (b_exc = "Dependencies NOT resolved")
        /\ (loops = <<>>) <=> (b_pc = "check")

\* a loop, a singleton after it that is not enqueued, and a second loop
C18_Witness ==
    /\ b_pc = "aborted"
    /\ Len(resolved) = 3
    /\ Len(resolved[1]) = 2
    /\ Len(resolved[2]) = 1
    /\ Len(resolved[3]) = 2
    /\ Len(loops) = 2
    /\ packages = <<>>

\* C20: a directory that holds a stamp written by this run had
\* process_source return for it right before the stamp was written, for a
\* task whose build_location was set before the run reached it; a failing
\* process_source leaves the directory without a stamp.
C20_StampAfterStaging ==
    /\ \A loc \in stamps :
          /\ loc # 0
          /\ \A q \in 1..Len(events) :
                ~(events[q].op = "make_build_dir" /\ events[q].arg = loc)
          /\ \E p \in 1..(Len(events) - 1) :
                /\ events[p].op = "process_source"
                /\ events[p].arg = loc
                /\ events[p + 1] = Ev("touch_stamp", events[p].task, loc)
    /\ \A p \in 1..Len(events) :
          events[p].op = "touch_stamp" =>
              /\ p > 1
              /\ events[p - 1] = Ev("process_source", events[p].task, events[p].arg)
              /\ events[p].arg \in stamps
    /\ b_exc = "process_source" =>
          /\ ~Stamped(packages[idx])
          /\ events[Len(events)].op = "process_source"

\* the meta-package's directory was staged and stamped, and the staging of a
\* later package failed
C20_Witness ==
    /\ b_exc = "process_source"
    /\ stamps = {GroupDir}
    /\ TaskEvents("touch_stamp", 1) # <<>>

(***************************************************************************)
(* More properties of acbs/deps.py                                         *)
(***************************************************************************)

\* C19: the counter of a coordinator never goes down and is never reset; it
\* grows by one per failed install that correct_deps followed; a call entered
\* with the counter above 1 returns in exhaust mode at its first invocation
\* and attempts no install (a self-dependency error, raised before the mode
\* is looked at, aside).
C19_CounterLatches ==
    /\ \A k \in 1..Len(entries) : entries[k] <= retry
    /\ \A k \in 1..(Len(entries) - 1) : entries[k + 1] = entries[k] + 1
    /\ (dp_pc = "done" /\ entries # <<>> /\ entries[1] > 1) =>
          /\ Len(entries) = 1
          /\ installs = 0
          /\ dp_result.kind \in {"exhaust", "ACBSGeneralError"}

====
